---- MODULE Spec2Model ----
(***************************************************************************)
(* A model of deenurp's cluster merging (deenurp/select.py), of its         *)
(* outlier-filtering scheduler (deenurp/subcommands/filter_outliers.py)    *)
(* and of the node selection of its hierarchical reference packages        *)
(* (deenurp/subcommands/hrefpkg_build.py).                                 *)
(***************************************************************************)
EXTENDS Integers, Sequences, FiniteSets, TLC

(***************************************************************************)
(* Bounds of the model.                                                    *)
(***************************************************************************)
\* cluster ids given to _merge_by_taxid on its own are 1..MaxClusterId
MaxClusterId == 3
\* at most this many (tax_id, cluster ids) pairs are given to _merge_by_taxid
MaxGroups == 3
\* the rows of cluster_sequences are the sequences 1..NumClusterSeqs, and
\* their cluster ids are drawn from 1..NumClusterSeqs
NumClusterSeqs == 4
\* merge_clusters is run at most this many times in a row
MaxRuns == 2

\* the taxonomy has the nodes 1..NumTaxNodes, node 1 being its root
NumTaxNodes == 3
\* the seqinfo file names the sequences 1..NumSeqs
NumSeqs == 3

\* the taxonomy given to choose_sequence_ids has the nodes 1..NumFindNodes
NumFindNodes == 4
\* the seqinfo rows given to choose_sequence_ids name the sequences
\* 1..NumFindSeqs
NumFindSeqs == 3

\* the tax_ids of the best hits
TaxIds == {101, 102}
\* the pool widths (--threads) tried
ThreadChoices == {1, 2}
\* the values of --min-seqs-for-filtering tried
MinSeqsChoices == {1, 2}

VARIABLES
    \* ---- _merge_by_taxid (select.py:162-180) ----
    it,                \* the pairs the iterable has still to give
    it0,               \* the pairs it was given in all
    d,                 \* the dict d: cluster_id -> frozenset of cluster ids
    merged,            \* the value returned: a set of merge groups
    mpc,               \* where the merging code is
    \* ---- merge_clusters (select.py:211-223) and the cluster store ----
    hits,              \* best_hits JOIN sequences: <<sequence name, tax_id>>
    cluster_sequences, \* the table as the connection sees it
    committed,         \* the table as committed to the database
    before,            \* the table when the current run began
    taken,             \* merge groups the loop of line 219 has taken
    first,             \* min(merge_group) of the executemany under way
    rows,              \* cluster ids the executemany has still to rewrite
    writes,            \* writes[r]: UPDATE statements executed by run r
    runs,              \* runs of merge_clusters that were begun
    \* ---- the taxonomy and the arguments of action (filter_outliers.py) ----
    parent,            \* node -> its parent (0 for the root)
    rank,              \* node -> its rank
    sequence_ids,      \* node -> the sequence ids attached to it
    a,                 \* the parsed arguments
    \* ---- action (filter_outliers.py:259-394) ----
    pc,                \* where the control thread is
    node_i,            \* the index i of the dispatch loop in nodes
    outcomes,          \* the list of outcome batches
    futs,              \* the futures in futs (each named by its node)
    submitted,         \* the nodes whose job was submitted, in order
    complete,          \* the counter of completed futures
    error,             \* the exception action is ending with
    kept_ids,          \* the final set of kept sequence ids
    written,           \* output file -> the sequence ids written to it
    \* ---- the ThreadPoolExecutor and its futures ----
    fn,                \* node -> the function its job runs
    status,            \* node -> the state of its job
    is_out,            \* node -> the sequences its finished job flags
    work_queue,        \* the jobs no worker has taken yet, oldest first
    shutdown,          \* executor.shutdown was called
    wrote,             \* shared object -> the threads that have written it
    \* ---- choose_sequence_ids and find_nodes (hrefpkg_build.py:84-181) ----
    index_rank,        \* the argument index_rank
    per_taxon,         \* the argument per_taxon
    seqinfo_rows,      \* the rows still to be attached: <<seqname, tax_id>>
    nodes,             \* the nodes find_nodes yields, in order
    visited,           \* the nodes inner was called on
    node_k,            \* the position in nodes of the loop of line 176
    yielded,           \* yielded[k]: the ids yielded for nodes[k], in order
    fpc                \* where choose_sequence_ids is

mergeVars == <<it, it0, d, merged, mpc>>
storeVars == <<hits, cluster_sequences, committed, before, taken, first, rows,
               writes, runs>>
taxVars == <<parent, rank, sequence_ids, a>>
ctlVars == <<pc, node_i, outcomes, futs, submitted, complete, error, kept_ids,
             written>>
poolVars == <<fn, status, is_out, work_queue, shutdown, wrote>>
filterVars == <<taxVars, ctlVars, poolVars>>
findVars == <<index_rank, per_taxon, seqinfo_rows, nodes, visited, node_k,
              yielded, fpc>>
vars == <<mergeVars, storeVars, filterVars, findVars>>

(***************************************************************************)
(* Helpers.                                                                *)
(***************************************************************************)
Range(f) == {f[x] : x \in DOMAIN f}

Min(S) == CHOOSE x \in S : \A y \in S : x <= y

Max(S) == CHOOSE x \in S : \A y \in S : x >= y

\* the elements of a set of numbers, in increasing order
RECURSIVE SortedSeq(_)
SortedSeq(S) ==
    IF S = {} THEN <<>> ELSE <<Min(S)>> \o SortedSeq(S \ {Min(S)})

\* the lists that hold each element of S once: the orders a set, or the rows
\* of a query without ORDER BY, can be iterated in
RECURSIVE Orders(_)
Orders(S) ==
    IF S = {} THEN {<<>>}
    ELSE UNION {{<<x>> \o o : o \in Orders(S \ {x})} : x \in S}

SeqsUpTo(S, n) == UNION {[1..k -> S] : k \in 0..n}

(***************************************************************************)
(* _merge_by_taxid                                                         *)
(***************************************************************************)
\* a plausible slip: the sets recorded earlier for the ids are not folded in
ForgetPrevious(s, cluster_ids, dict) == s

\* lines 172-174: for cluster_id in cluster_ids: if cluster_id in d: s |= d[..]
RECURSIVE AddPrevious(_, _, _)
AddPrevious(s, cluster_ids, dict) ==
    IF cluster_ids = <<>> THEN s
    ELSE LET cluster_id == Head(cluster_ids)
         IN AddPrevious(IF cluster_id \in DOMAIN dict
                           THEN s \cup dict[cluster_id] ELSE s,
                        Tail(cluster_ids), dict)

\* a plausible slip: only the ids of this group are given the new set
AssignGroupOnly(dict, cluster_ids, s) ==
    [c \in DOMAIN dict \cup Range(cluster_ids) |->
        IF c \in Range(cluster_ids) THEN s ELSE dict[c]]

\* lines 176-178: for cluster_id in s: d[cluster_id] = s
AssignAll(dict, cluster_ids, s) ==
    [c \in DOMAIN dict \cup s |-> IF c \in s THEN s ELSE dict[c]]

\* one pass of the loop body, lines 169-178, for the list cluster_ids
MergeOne(dict, cluster_ids) ==
    LET s == AddPrevious(Range(cluster_ids), cluster_ids, dict)
    IN AssignAll(dict, cluster_ids, s)

\* lines 167-180 as one function of the whole input
RECURSIVE MergeAll(_, _)
MergeAll(dict, input) ==
    IF input = <<>> THEN dict
    ELSE MergeAll(MergeOne(dict, SortedSeq(Head(input)[2])), Tail(input))

MergeByTaxid(input) == Range(MergeAll(<<>>, input))

\* line 168: the loop takes the next (tax_id, cluster_ids) pair; the ids of
\* a pair come as a list, in an order that nothing fixes
MergeByTaxidStep ==
    /\ mpc = "merge"
    /\ it # <<>>
    /\ \E cluster_ids \in Orders(Head(it)[2]) :
           d' = MergeOne(d, cluster_ids)
    /\ it' = Tail(it)
    /\ UNCHANGED <<it0, merged, mpc, storeVars, filterVars, findVars>>

\* line 180: return frozenset(d.values())
MergeByTaxidReturn ==
    /\ mpc = "merge"
    /\ it = <<>>
    /\ merged' = Range(d)
    /\ mpc' = "returned"
    /\ UNCHANGED <<it, it0, d, storeVars, filterVars, findVars>>

(***************************************************************************)
(* The specification of _merge_by_taxid on its own: any input.             *)
(***************************************************************************)
ClusterIdGroups == (SUBSET (1..MaxClusterId)) \ {{}}

\* the tax_id of a pair is not read by _merge_by_taxid: pair i carries 100 + i
MergeInputs ==
    {[i \in DOMAIN gs |-> <<100 + i, gs[i]>>] :
        gs \in SeqsUpTo(ClusterIdGroups, MaxGroups)}

\* action is not running
FilterIdle ==
    /\ parent = <<>>
    /\ rank = <<>>
    /\ sequence_ids = <<>>
    /\ a = <<>>
    /\ pc = "idle"
    /\ node_i = 0
    /\ outcomes = <<>>
    /\ futs = {}
    /\ submitted = <<>>
    /\ complete = 0
    /\ error = <<"none", 0>>
    /\ kept_ids = {}
    /\ written = <<>>
    /\ fn = <<>>
    /\ status = <<>>
    /\ is_out = <<>>
    /\ work_queue = <<>>
    /\ shutdown = FALSE
    /\ wrote = <<>>

\* choose_sequence_ids is not running
FindIdle ==
    /\ index_rank = ""
    /\ per_taxon = 0
    /\ seqinfo_rows = <<>>
    /\ nodes = <<>>
    /\ visited = {}
    /\ node_k = 0
    /\ yielded = <<>>
    /\ fpc = "idle"

StoreIdle ==
    /\ hits = {}
    /\ cluster_sequences = <<>>
    /\ committed = <<>>
    /\ before = <<>>
    /\ taken = {}
    /\ first = 0
    /\ rows = {}
    /\ writes = <<>>
    /\ runs = 0

InitMergeByTaxid ==
    /\ it \in MergeInputs
    /\ it0 = it
    /\ d = <<>>
    /\ merged = {}
    /\ mpc = "merge"
    /\ StoreIdle
    /\ FilterIdle
    /\ FindIdle

NextMergeByTaxid == MergeByTaxidStep \/ MergeByTaxidReturn

SpecMergeByTaxid == InitMergeByTaxid /\ [][NextMergeByTaxid]_vars

(***************************************************************************)
(* _find_clusters_to_merge and merge_clusters on the cluster store         *)
(***************************************************************************)
SeqNames == 1..NumClusterSeqs

ClusterIds == 1..NumClusterSeqs

\* lines 188-196: SELECT DISTINCT tax_id, cluster_id FROM best_hits JOIN
\* sequences JOIN cluster_sequences
TaxToCluster(table, h) == {<<p[2], table[p[1]]>> : p \in h}

\* lines 199-207: the tax_ids with more than one cluster_id, in tax_id order,
\* each with its cluster ids
FindClustersToMerge(table, h) ==
    LET ttc == TaxToCluster(table, h)
        ClustersOf(t) == {p[2] : p \in {q \in ttc : q[1] = t}}
        many == {t \in {p[1] : p \in ttc} : Cardinality(ClustersOf(t)) > 1}
        order == SortedSeq(many)
    IN [i \in DOMAIN order |-> <<order[i], ClustersOf(order[i])>>]

\* a plausible slip: the group is rewritten to its largest id
LastOf(merge_group) == Max(merge_group)

\* line 220: first = min(merge_group)
FirstOf(merge_group) == Min(merge_group)

\* lines 212-214: UPDATE cluster_sequences SET cluster_id = ? WHERE cluster_id = ?
Update(table, to, from) ==
    [s \in DOMAIN table |-> IF table[s] = from THEN to ELSE table[s]]

\* a connection that commits every statement as it runs has nothing to roll back
ExitAutocommit(table, saved, raised) == table

\* line 215: `with con:` commits when the block ends and rolls back when it raises
ExitConnection(table, saved, raised) == IF raised THEN saved ELSE table

\* lines 215-218: a run begins; the generator of _find_clusters_to_merge is
\* what _merge_by_taxid iterates
BeginRun ==
    /\ mpc \in {"idle", "done"}
    /\ runs < MaxRuns
    /\ runs' = runs + 1
    /\ before' = cluster_sequences
    /\ it' = FindClustersToMerge(cluster_sequences, hits)
    /\ it0' = it'
    /\ d' = <<>>
    /\ merged' = {}
    /\ taken' = {}
    /\ first' = 0
    /\ rows' = {}
    /\ writes' = Append(writes, 0)
    /\ mpc' = "merge"
    /\ UNCHANGED <<hits, cluster_sequences, committed, filterVars, findVars>>

\* lines 219-222: the loop takes the next merge group (a frozenset of
\* frozensets has no fixed order)
NextGroup ==
    /\ mpc = "returned"
    /\ runs > 0
    /\ rows = {}
    /\ \E merge_group \in merged \ taken :
        /\ first' = FirstOf(merge_group)
        /\ rows' = {i \in merge_group : i # first'}
        /\ taken' = taken \cup {merge_group}
    /\ UNCHANGED <<mergeVars, hits, cluster_sequences, committed, before,
                   writes, runs, filterVars, findVars>>

\* line 223: executemany runs the UPDATE for the next row of the generator
ExecuteUpdate ==
    /\ mpc = "returned"
    /\ rows # {}
    /\ \E i \in rows :
        /\ cluster_sequences' = Update(cluster_sequences, first, i)
        /\ rows' = rows \ {i}
    /\ writes' = [writes EXCEPT ![runs] = @ + 1]
    /\ UNCHANGED <<mergeVars, hits, committed, before, taken, first, runs,
                   filterVars, findVars>>

\* line 215: the with block ends normally
Commit ==
    /\ mpc = "returned"
    /\ runs > 0
    /\ rows = {}
    /\ taken = merged
    /\ committed' = ExitConnection(cluster_sequences, committed, FALSE)
    /\ cluster_sequences' = committed'
    /\ mpc' = "done"
    /\ UNCHANGED <<it, it0, d, merged, hits, before, taken, first, rows,
                   writes, runs, filterVars, findVars>>

\* line 215: a statement of the run raises (the database is locked, the disk
\* is full, ...) and the with block ends by the exception
FailRun ==
    /\ mpc \in {"merge", "returned"}
    /\ runs > 0
    /\ committed' = ExitConnection(cluster_sequences, committed, TRUE)
    /\ cluster_sequences' = committed'
    /\ mpc' = "failed"
    /\ UNCHANGED <<it, it0, d, merged, hits, before, taken, first, rows,
                   writes, runs, filterVars, findVars>>

\* sequence names are labels that no statement compares: every table is, by a
\* renaming of its sequences, one whose cluster ids do not decrease along the
\* names, and hits ranges over every relation on those names
ClusterTables ==
    {t \in [SeqNames -> ClusterIds] :
        \A x, y \in SeqNames : x <= y => t[x] <= t[y]}

InitMerge ==
    /\ hits \in SUBSET (SeqNames \X TaxIds)
    /\ cluster_sequences \in ClusterTables
    /\ committed = cluster_sequences
    /\ before = cluster_sequences
    /\ taken = {}
    /\ first = 0
    /\ rows = {}
    /\ writes = <<>>
    /\ runs = 0
    /\ it = <<>>
    /\ it0 = <<>>
    /\ d = <<>>
    /\ merged = {}
    /\ mpc = "idle"
    /\ FilterIdle
    /\ FindIdle

NextMerge ==
    \/ BeginRun
    \/ MergeByTaxidStep
    \/ MergeByTaxidReturn
    \/ NextGroup
    \/ ExecuteUpdate
    \/ Commit
    \/ FailRun

SpecMerge == InitMerge /\ [][NextMerge]_vars

(***************************************************************************)
(* The taxonomy that action loads (filter_outliers.py:266-274)             *)
(***************************************************************************)
\* taxonomy.ranks, from the least to the most specific
Ranks == <<"root", "genus", "species", "below_species">>

DEFAULT_RANK == "species"

DROP == "drop"

KEEP == "keep"

TaxNodes == 1..NumTaxNodes

SequenceIds == 1..NumSeqs

\* ranks.index(r), lines 78 and 82
RankIndex(r) == CHOOSE k \in DOMAIN Ranks : Ranks[k] = r

Children(n) == {c \in DOMAIN parent : parent[c] = n}

\* iteration over a node: the node, then each child's subtree, children in
\* their declared order (line 86, line 299)
RECURSIVE PreOrderAll(_)
PreOrder(n) == <<n>> \o PreOrderAll(SortedSeq(Children(n)))
PreOrderAll(ns) ==
    IF ns = <<>> THEN <<>> ELSE PreOrder(Head(ns)) \o PreOrderAll(Tail(ns))

Taxonomy == PreOrder(1)

\* line 307: node.subtree_sequence_ids()
SubtreeSequenceIds(n) == UNION {sequence_ids[m] : m \in Range(PreOrder(n))}

\* a plausible slip: nodes at the rank itself are counted as above it
AtOrAboveRank(n, r) == RankIndex(rank[n]) <= RankIndex(r)

\* lines 81-84: above_rank(node)
AboveRank(n, r) == RankIndex(rank[n]) < RankIndex(r)

\* lines 73-89: sequences_above_rank(taxonomy, rank)
SequencesAboveRank(r) ==
    UNION {sequence_ids[n] : n \in {m \in Range(Taxonomy) : AboveRank(m, r)}}

\* line 299: nodes = [i for i in taxonomy if i.rank == a.filter_rank]
FilterRankNodes ==
    LET AtRank(n) == rank[n] = a.filter_rank IN SelectSeq(Taxonomy, AtRank)

\* a plausible slip: is_out is keep, not (not keep)
MockFilterInverted(seqs, keep) ==
    [seqname |-> seqs, is_out |-> IF keep THEN seqs ELSE {}]

\* lines 208-220: mock_filter(seqs, keep): is_out is (not keep) for all seqs
MockFilter(seqs, keep) == [seqname |-> seqs, is_out |-> IF keep THEN {} ELSE seqs]

\* lines 295, 355: the batch with its column of the tax_id at the filter rank
WithTaxId(batch, tax_id) ==
    [seqname |-> batch.seqname, is_out |-> batch.is_out, tax_id |-> tax_id]

\* a plausible slip: the new batch replaces what was accumulated
ReplaceOutcomes(list, batch) == <<batch>>

\* lines 296, 357: outcomes.append(...)
AppendOutcome(list, batch) == Append(list, batch)

\* line 369: the rows of pd.concat(outcomes) that have seqname s
RowsOf(list, s) == {k \in DOMAIN list : s \in list[k].seqname}

\* line 373, right side: set(all_outcomes.index)
OutcomeIndex(list) == UNION {list[k].seqname : k \in DOMAIN list}

\* line 373, left side: {s for node in taxonomy for s in node.sequence_ids}
AllSequenceIds == UNION {sequence_ids[n] : n \in Range(Taxonomy)}

\* a plausible slip: the last batch appended is left out of the concatenation
KeptIdsButLast(list) ==
    UNION {list[k].seqname \ list[k].is_out : k \in DOMAIN list \ {Len(list)}}

\* line 375: set(all_outcomes.index[~all_outcomes.is_out])
KeptIds(list) ==
    UNION {list[k].seqname \ list[k].is_out : k \in DOMAIN list}

(***************************************************************************)
(* action: the control thread                                              *)
(***************************************************************************)
\* lines 278-285: the log sink exists when a.log is given
LogWriters(thread) == IF a.log THEN {thread} ELSE {}

Wrote(w, object, threads) == [w EXCEPT ![object] = @ \cup threads]

\* lines 291-296: the sequences above the filter rank are kept
KeepAboveRank ==
    /\ pc = "start"
    /\ outcomes' = AppendOutcome(outcomes,
           WithTaxId(MockFilter(SequencesAboveRank(a.filter_rank), TRUE), 0))
    /\ wrote' = Wrote(wrote, "outcomes", {"control"})
    /\ pc' = "dispatch"
    /\ node_i' = 1
    /\ UNCHANGED <<mergeVars, storeVars, findVars, taxVars, written,
                   futs, submitted, complete,
                   error, kept_ids, fn, status, is_out, work_queue, shutdown>>

\* a dispatch loop that fails fast: nothing is submitted once a job has failed
SubmitUnlessFailed(node, f) ==
    IF \E n \in DOMAIN status : status[n] = "failed"
       THEN UNCHANGED <<fn, status, work_queue, futs, submitted>>
       ELSE /\ fn' = [fn EXCEPT ![node] = f]
            /\ status' = [status EXCEPT ![node] = "queued"]
            /\ work_queue' = Append(work_queue, node)
            /\ futs' = futs \cup {node}
            /\ submitted' = Append(submitted, node)

\* executor.submit(f, ...), lines 319, 321, 327, and line 336
Submit(node, f) ==
    /\ fn' = [fn EXCEPT ![node] = f]
    /\ status' = [status EXCEPT ![node] = "queued"]
    /\ work_queue' = Append(work_queue, node)
    /\ futs' = futs \cup {node}
    /\ submitted' = Append(submitted, node)

\* lines 306-336: one pass of the dispatch loop
Dispatch ==
    /\ pc = "dispatch"
    /\ node_i <= Len(FilterRankNodes)
    /\ LET node == FilterRankNodes[node_i]
           seqs == SubtreeSequenceIds(node)
       IN \/ /\ seqs = {}
             /\ wrote' = Wrote(wrote, "log", LogWriters("control"))
             /\ node_i' = node_i + 1
             /\ UNCHANGED <<pc, futs, submitted, error, fn, status, work_queue>>
          \/ /\ seqs # {}
             /\ Cardinality(seqs) < a.min_seqs_for_filtering
             /\ a.rare_taxon_action \in {DROP, KEEP}
             /\ Submit(node, "mock_filter")
             /\ node_i' = node_i + 1
             /\ UNCHANGED <<pc, error, wrote>>
          \/ /\ seqs # {}
             /\ Cardinality(seqs) < a.min_seqs_for_filtering
             /\ a.rare_taxon_action \notin {DROP, KEEP}
             /\ error' = <<"ValueError", 0>>
             /\ pc' = "exit"
             /\ UNCHANGED <<node_i, futs, submitted, fn, status, work_queue, wrote>>
          \/ /\ Cardinality(seqs) >= a.min_seqs_for_filtering
             /\ seqs # {}
             /\ Submit(node, "filter_worker")
             /\ node_i' = node_i + 1
             /\ UNCHANGED <<pc, error, wrote>>
    /\ UNCHANGED <<mergeVars, storeVars, findVars, taxVars, written,
                   outcomes, complete,
                   kept_ids, is_out, shutdown>>

\* line 339: the dispatch loop is over; complete = 0
BeginWait ==
    /\ pc = "dispatch"
    /\ node_i > Len(FilterRankNodes)
    /\ complete' = 0
    /\ wrote' = Wrote(wrote, "complete", {"control"})
    /\ pc' = "wait"
    /\ UNCHANGED <<mergeVars, storeVars, findVars, taxVars, written,
                   node_i, outcomes, futs, submitted,
                   error, kept_ids, fn, status, is_out, work_queue, shutdown>>

\* line 341: futures.wait(futs, 1, FIRST_COMPLETED) returns, as done, the
\* futures of futs that are finished (none when the second has passed)
DoneFutures == {f \in futs : status[f] \in {"ok", "failed"}}

\* lines 351-357: the batches of the futures fs, in the order the loop of
\* line 345 met them
RECURSIVE Merged(_, _)
Merged(list, fs) ==
    IF fs = <<>> THEN list
    ELSE Merged(AppendOutcome(list,
                    WithTaxId([seqname |-> SubtreeSequenceIds(Head(fs)),
                               is_out |-> is_out[Head(fs)]], Head(fs))),
                Tail(fs))

\* a plausible slip: a poll counts one completed future, however many are done
PollMergeCountsOne ==
    /\ pc = "wait"
    /\ futs # {}
    /\ \A f \in DoneFutures : status[f] = "ok"
    /\ complete' = complete + (IF DoneFutures = {} THEN 0 ELSE 1)
    /\ \E order \in Orders(DoneFutures) : outcomes' = Merged(outcomes, order)
    /\ futs' = futs \ DoneFutures
    /\ wrote' = Wrote(Wrote(wrote, "complete", {"control"}),
                      "outcomes", IF DoneFutures = {} THEN {} ELSE {"control"})
    /\ UNCHANGED <<mergeVars, storeVars, findVars, taxVars, written, pc, node_i,
                   submitted, error, kept_ids, fn, status, is_out, work_queue,
                   shutdown>>

\* lines 341-357: one pass of the polling loop in which no future of done
\* holds an exception; done is a set, met in any order
PollMerge ==
    /\ pc = "wait"
    /\ futs # {}
    /\ \A f \in DoneFutures : status[f] = "ok"
    /\ complete' = complete + Cardinality(DoneFutures)
    /\ \E order \in Orders(DoneFutures) : outcomes' = Merged(outcomes, order)
    /\ futs' = futs \ DoneFutures
    /\ wrote' = Wrote(Wrote(wrote, "complete", {"control"}),
                      "outcomes", IF DoneFutures = {} THEN {} ELSE {"control"})
    /\ UNCHANGED <<mergeVars, storeVars, findVars, taxVars, written,
                   pc, node_i, submitted, error,
                   kept_ids, fn, status, is_out, work_queue, shutdown>>

\* a plausible slip: a future that holds an exception is logged and popped,
\* and the loop goes on
PollSkipFailed ==
    /\ pc = "wait"
    /\ futs # {}
    /\ \E f \in DoneFutures :
        /\ status[f] = "failed"
        /\ futs' = futs \ {f}
    /\ complete' = complete + 1
    /\ UNCHANGED <<mergeVars, storeVars, findVars, taxVars, written, pc, node_i,
                   outcomes, submitted, error, kept_ids, poolVars>>

\* lines 341-349: one pass of the polling loop that meets a future holding an
\* exception, after the futures before (any of the others that succeeded):
\* executor.shutdown(False), then the exception is raised
PollRaise ==
    /\ pc = "wait"
    /\ futs # {}
    /\ \E f \in DoneFutures :
        /\ status[f] = "failed"
        /\ \E before_f \in SUBSET {g \in DoneFutures : status[g] = "ok"} :
            /\ \E order \in Orders(before_f) :
                   outcomes' = Merged(outcomes, order)
            /\ futs' = futs \ before_f
            /\ wrote' = Wrote(Wrote(wrote, "complete", {"control"}),
                          "outcomes", IF before_f = {} THEN {} ELSE {"control"})
        /\ error' = <<"job", f>>
    /\ complete' = complete + Cardinality(DoneFutures)
    /\ shutdown' = TRUE
    /\ pc' = "exit"
    /\ UNCHANGED <<mergeVars, storeVars, findVars, taxVars, written,
                   node_i, submitted, kept_ids, fn,
                   status, is_out, work_queue>>

\* line 302: the with block of the executor ends: __exit__ calls
\* shutdown(wait=True), which returns when every worker thread has ended, and
\* a worker ends only when it finds the work queue empty
ExitPool ==
    /\ \/ pc = "exit"
       \/ pc = "wait" /\ futs = {}
    /\ work_queue = <<>>
    /\ \A n \in DOMAIN status : status[n] # "running"
    /\ shutdown' = TRUE
    /\ pc' = IF error[1] = "none" THEN "concat" ELSE "raised"
    /\ UNCHANGED <<mergeVars, storeVars, findVars, taxVars, written,
                   node_i, outcomes, futs, submitted,
                   complete, error, kept_ids, fn, status, is_out, work_queue,
                   wrote>>

\* lines 369-375: the batches are concatenated, every input sequence must be
\* in the index (the assert of line 373), and the kept ids are taken
Aggregate ==
    /\ pc = "concat"
    /\ IF AllSequenceIds = OutcomeIndex(outcomes)
          THEN /\ kept_ids' = KeptIds(outcomes)
               /\ pc' = "done"
               /\ error' = error
          ELSE /\ kept_ids' = kept_ids
               /\ pc' = "raised"
               /\ error' = <<"AssertionError", 0>>
    /\ UNCHANGED <<mergeVars, storeVars, findVars, taxVars, written,
                   node_i, outcomes, futs, submitted,
                   complete, poolVars>>

\* the output files of a run: the sequence file, and the two seqinfo files
\* of --filtered-seqinfo and --detailed-seqinfo, here both asked for
OutputFiles == {"output_fp", "filtered_seqinfo", "detailed_seqinfo"}

\* lines 377-394: the kept sequences are extracted to output_fp; the rows of
\* the kept sequences go to filtered_seqinfo and the rows of all sequences to
\* detailed_seqinfo
WriteOutputs ==
    /\ pc = "done"
    /\ written' = [f \in OutputFiles |->
                      IF f = "detailed_seqinfo"
                         THEN OutcomeIndex(outcomes) ELSE kept_ids]
    /\ pc' = "written"
    /\ UNCHANGED <<mergeVars, storeVars, findVars, taxVars, node_i, outcomes,
                   futs, submitted, complete, error, kept_ids, poolVars>>

(***************************************************************************)
(* The worker threads of the ThreadPoolExecutor                            *)
(***************************************************************************)
Running == {n \in DOMAIN status : status[n] = "running"}

\* a worker thread that is free takes the oldest item of the work queue; the
\* pool has a.threads workers, and shutdown does not stop them taking items
StartJob ==
    /\ work_queue # <<>>
    /\ Cardinality(Running) < a.threads
    /\ status' = [status EXCEPT ![Head(work_queue)] = "running"]
    /\ work_queue' = Tail(work_queue)
    /\ UNCHANGED <<mergeVars, storeVars, findVars, taxVars, ctlVars, fn, is_out,
                   shutdown, wrote>>

\* a plausible slip: the worker appends its batch to the accumulator itself
WorkerWritesOutcomes(f) ==
    (IF f = "filter_worker" /\ a.log THEN {"log"} ELSE {}) \cup {"outcomes"}

\* lines 252-254: filter_worker calls log_taxid, when there is one, in the
\* worker thread; mock_filter writes nothing
WorkerWrites(f) == IF f = "filter_worker" /\ a.log THEN {"log"} ELSE {}

\* the node a sequence is attached to
NodeOf(s) == CHOOSE n \in DOMAIN sequence_ids : s \in sequence_ids[n]

\* what filter_sequences may flag among seqs: any of them. Sequence names are
\* labels: every set of flagged sequences is, by a renaming of the sequences
\* attached to one node, one that holds the first names of each node
FlagChoices(seqs) ==
    {F \in SUBSET seqs :
        \A x, y \in seqs :
            (NodeOf(x) = NodeOf(y) /\ x < y /\ y \in F) => x \in F}

\* lines 208-220, 223-256: a job returns; what filter_sequences flags is
\* decided by the aligner and the distances: any of the sequences
FinishJob ==
    \E n \in Running :
        /\ status' = [status EXCEPT ![n] = "ok"]
        /\ IF fn[n] = "mock_filter"
              THEN is_out' = [is_out EXCEPT ![n] =
                       MockFilter(SubtreeSequenceIds(n),
                                  a.rare_taxon_action = KEEP).is_out]
              ELSE \E flagged \in FlagChoices(SubtreeSequenceIds(n)) :
                       is_out' = [is_out EXCEPT ![n] = flagged]
        /\ wrote' = [o \in DOMAIN wrote |->
                        IF o \in WorkerWrites(fn[n])
                           THEN wrote[o] \cup {"worker"} ELSE wrote[o]]
        /\ UNCHANGED <<mergeVars, storeVars, findVars, taxVars, ctlVars, fn, work_queue,
                       shutdown>>

\* lines 244-250: esl_sfetch, the aligner or the distance step raises inside
\* filter_worker; the future holds the exception
FailJob ==
    \E n \in Running :
        /\ fn[n] = "filter_worker"
        /\ status' = [status EXCEPT ![n] = "failed"]
        /\ UNCHANGED <<mergeVars, storeVars, findVars, taxVars, ctlVars, fn, is_out,
                       work_queue, shutdown, wrote>>

(***************************************************************************)
(* The specification of action                                             *)
(***************************************************************************)
MergeIdle ==
    /\ it = <<>>
    /\ it0 = <<>>
    /\ d = <<>>
    /\ merged = {}
    /\ mpc = "idle"
    /\ StoreIdle

\* node m is at or below node n in the tree of parents p
RECURSIVE BelowIn(_, _, _)
BelowIn(p, m, n) == m = n \/ (p[m] # 0 /\ BelowIn(p, p[m], n))

\* the trees on the nodes: every node but the root has a parent. Node names
\* are labels and children are met in the order of their names: every ordered
\* tree is, by a renaming of its nodes, one whose nodes are numbered in the
\* order of the traversal, so that the nodes of a subtree are consecutive
Parents ==
    {p \in [TaxNodes -> 0..NumTaxNodes] :
        /\ p[1] = 0
        /\ \A n \in TaxNodes \ {1} : p[n] \in 1..(n - 1)
        /\ \A n \in TaxNodes \ {1} :
               \A m \in (p[n] + 1)..(n - 1) : BelowIn(p, m, p[n])}

\* the ranks of the nodes of a tree: a child's rank is deeper than its parent's
RanksOfTree(p) ==
    {r \in [TaxNodes -> Range(Ranks)] :
        /\ r[1] = "root"
        /\ \A n \in TaxNodes \ {1} : RankIndex(r[n]) > RankIndex(r[p[n]])}

\* populate_from_seqinfo, line 273: each sequence is attached to the node of
\* its tax_id. Sequence names are labels: every assignment is, by a renaming
\* of the sequences, one that does not decrease along the names
SeqInfos ==
    {t \in [SequenceIds -> TaxNodes] :
        \A x, y \in SequenceIds : x <= y => t[x] <= t[y]}

Arguments ==
    [filter_rank : {DEFAULT_RANK},
     threads : ThreadChoices,
     min_seqs_for_filtering : MinSeqsChoices,
     rare_taxon_action : {KEEP, DROP, "other"},
     log : BOOLEAN]

InitFilter ==
    /\ MergeIdle
    /\ FindIdle
    /\ parent \in Parents
    /\ rank \in RanksOfTree(parent)
    /\ \E t \in SeqInfos :
           sequence_ids = [n \in TaxNodes |-> {s \in SequenceIds : t[s] = n}]
    /\ a \in Arguments
    /\ pc = "start"
    /\ node_i = 0
    /\ outcomes = <<>>
    /\ futs = {}
    /\ submitted = <<>>
    /\ complete = 0
    /\ error = <<"none", 0>>
    /\ kept_ids = {}
    /\ written = <<>>
    /\ fn = [n \in TaxNodes |-> "none"]
    /\ status = [n \in TaxNodes |-> "none"]
    /\ is_out = [n \in TaxNodes |-> {}]
    /\ work_queue = <<>>
    /\ shutdown = FALSE
    /\ wrote = [o \in {"log", "outcomes", "complete"} |->
                   IF o = "log" /\ a.log THEN {"control"} ELSE {}]

NextFilter ==
    \/ KeepAboveRank
    \/ Dispatch
    \/ BeginWait
    \/ PollMerge
    \/ PollRaise
    \/ ExitPool
    \/ Aggregate
    \/ WriteOutputs
    \/ StartJob
    \/ FinishJob
    \/ FailJob

SpecFilter == InitFilter /\ [][NextFilter]_vars

\* the runs the liveness of the polling loop is checked on: the log sink is
\* not read by the loop, and the rare-taxon policy decides what mock_filter
\* returns, not which jobs are submitted, so one value of each is taken
InitFilterFair ==
    /\ InitFilter
    /\ ~a.log
    /\ a.rare_taxon_action = KEEP

\* the threads run: a free worker takes the next job, a job that does not
\* raise returns, and the control thread goes on polling and leaves the pool
SpecFilterFair ==
    /\ InitFilterFair
    /\ [][NextFilter]_vars
    /\ WF_vars(StartJob)
    /\ WF_vars(FinishJob)
    /\ WF_vars(PollMerge)
    /\ WF_vars(ExitPool)

(***************************************************************************)
(* find_nodes (hrefpkg_build.py:84-121)                                    *)
(***************************************************************************)
\* 'below' in node.rank: the made-up ranks of the rank list
ContainsBelow(r) == r \in {"below_species"}

\* a plausible slip: only the sequences attached to the node itself count
AnySequencesHere(node) == sequence_ids[node] # {}

\* lines 93-97: any_sequences_below(node)
AnySequencesBelow(node) ==
    \E m \in Range(PreOrder(node)) : sequence_ids[m] # {}

\* a plausible slip: a node at want_rank is preferred only for sequences of
\* its own
PreferredForOwnSequences(node, want_rank) ==
    rank[node] = want_rank /\ sequence_ids[node] # {}

\* line 105: node.rank == want_rank and any_sequences_below(node)
Preferred(node, want_rank) ==
    rank[node] = want_rank /\ AnySequencesBelow(node)

\* a plausible slip: a node at the index rank is included too
IncludedAtIndexRank(node, index) ==
    /\ AnySequencesBelow(node)
    /\ ~ContainsBelow(rank[node])
    /\ RankIndex(index) <= RankIndex(rank[node])

\* lines 118-119: there are sequences here, the rank is not a made-up one and
\* it is more specific than the index rank
Included(node, index) ==
    /\ AnySequencesBelow(node)
    /\ ~ContainsBelow(rank[node])
    /\ RankIndex(index) < RankIndex(rank[node])

\* a plausible slip: the node is yielded along with the nodes of its children
UseChildrenAndNode(node, nodes_below) == <<node>> \o nodes_below

\* lines 110-113: if child taxa have valid sequences, use them
UseChildren(node, nodes_below) == nodes_below

\* lines 103-120: inner(node), and line 108: the chain of inner(i) for the
\* children i of a node, in their order
RECURSIVE Inner(_, _, _), InnerChain(_, _, _)
Inner(node, index, want_rank) ==
    IF Preferred(node, want_rank) THEN <<node>>
    ELSE LET nodes_below ==
                 InnerChain(SortedSeq(Children(node)), index, want_rank)
         IN IF nodes_below # <<>> THEN UseChildren(node, nodes_below)
            ELSE IF Included(node, index) THEN <<node>> ELSE <<>>

InnerChain(children, index, want_rank) ==
    IF children = <<>> THEN <<>>
    ELSE Inner(Head(children), index, want_rank)
             \o InnerChain(Tail(children), index, want_rank)

\* the nodes inner is called on when the generator is read to its end
RECURSIVE InnerCalls(_, _)
InnerCalls(node, want_rank) ==
    IF Preferred(node, want_rank) THEN {node}
    ELSE {node} \cup UNION {InnerCalls(c, want_rank) : c \in Children(node)}

\* lines 84-121: find_nodes(taxonomy, index_rank, want_rank='species')
FindNodes(taxonomy, index, want_rank) == Inner(taxonomy, index, want_rank)

(***************************************************************************)
(* choose_sequence_ids (hrefpkg_build.py:168-181)                          *)
(***************************************************************************)
FindTaxNodes == 1..NumFindNodes

FindSequenceIds == 1..NumFindSeqs

\* the values of per_taxon tried
PerTaxonChoices == {1, 2}

\* the values of index_rank tried; "class" is not a rank of the taxonomy
IndexRanks == {"root", "genus", "class"}

\* line 177: list(node.subtree_sequence_ids()): the ids of the node, then
\* those of each child's subtree
RECURSIVE ConcatSequenceIds(_)
ConcatSequenceIds(ns) ==
    IF ns = <<>> THEN <<>>
    ELSE SortedSeq(sequence_ids[Head(ns)]) \o ConcatSequenceIds(Tail(ns))

SubtreeSequenceList(node) == ConcatSequenceIds(PreOrder(node))

\* a plausible slip: k draws, each from the whole population
SampleWithReplacement(population, k) ==
    {[j \in 1..k |-> population[p[j]]] : p \in [1..k -> DOMAIN population]}

\* line 179: random.sample(population, k): k positions of the population, no
\* position twice, in any order
RandomSample(population, k) ==
    {[j \in 1..k |-> population[p[j]]] :
        p \in {q \in [1..k -> DOMAIN population] :
                  \A x, y \in 1..k : x # y => q[x] # q[y]}}

\* lines 172-173: every row's seqname is attached to the node of its tax_id
PopulateSequenceIds ==
    /\ fpc = "start"
    /\ sequence_ids' =
           [n \in DOMAIN sequence_ids |->
               sequence_ids[n] \cup
                   {seqinfo_rows[k][1] :
                       k \in {j \in DOMAIN seqinfo_rows : seqinfo_rows[j][2] = n}}]
    /\ fpc' = "populated"
    /\ UNCHANGED <<mergeVars, storeVars, parent, rank, a, ctlVars, poolVars,
                   index_rank, per_taxon, seqinfo_rows, nodes, visited, node_k,
                   yielded>>

\* line 175, and lines 89-92 and 121: find_nodes checks its ranks and returns
\* the generator, which the loop of line 176 reads to its end
FindNodesCall ==
    /\ fpc = "populated"
    /\ index_rank \in Range(Ranks)
    /\ nodes' = FindNodes(1, index_rank, DEFAULT_RANK)
    /\ visited' = InnerCalls(1, DEFAULT_RANK)
    /\ node_k' = 1
    /\ fpc' = "iterate"
    /\ UNCHANGED <<mergeVars, storeVars, filterVars, index_rank, per_taxon,
                   seqinfo_rows, yielded>>

\* line 91: assert index_rank in rdict
FindNodesAssert ==
    /\ fpc = "populated"
    /\ index_rank \notin Range(Ranks)
    /\ fpc' = "raised"
    /\ UNCHANGED <<mergeVars, storeVars, filterVars, index_rank, per_taxon,
                   seqinfo_rows, nodes, visited, node_k, yielded>>

\* lines 176-181: the ids of the next node are yielded: all of them, or a
\* sample of per_taxon of them when there are more
YieldNode ==
    /\ fpc = "iterate"
    /\ node_k <= Len(nodes)
    /\ LET node_seqs == SubtreeSequenceList(nodes[node_k])
       IN IF Len(node_seqs) > per_taxon
             THEN \E sample \in RandomSample(node_seqs, per_taxon) :
                      yielded' = Append(yielded, sample)
             ELSE yielded' = Append(yielded, node_seqs)
    /\ node_k' = node_k + 1
    /\ UNCHANGED <<mergeVars, storeVars, filterVars, index_rank, per_taxon,
                   seqinfo_rows, nodes, visited, fpc>>

\* line 176: the generator of find_nodes is at its end
ChooseEnd ==
    /\ fpc = "iterate"
    /\ node_k > Len(nodes)
    /\ fpc' = "done"
    /\ UNCHANGED <<mergeVars, storeVars, filterVars, index_rank, per_taxon,
                   seqinfo_rows, nodes, visited, node_k, yielded>>

\* the trees on the nodes 1..NumFindNodes: every node but node 1, where the
\* traversal starts, has a parent. Node names are labels and children are
\* met in the order of their names: every ordered tree is, by a renaming of
\* its nodes, one whose nodes are numbered in the order of the traversal, so
\* that the nodes of a subtree are consecutive
FindParents ==
    {p \in [FindTaxNodes -> 0..NumFindNodes] :
        /\ p[1] = 0
        /\ \A n \in FindTaxNodes \ {1} : p[n] \in 1..(n - 1)
        /\ \A n \in FindTaxNodes \ {1} :
               \A m \in (p[n] + 1)..(n - 1) : BelowIn(p, m, p[n])}

\* the ranks of the nodes of a tree: a child's rank is deeper than its
\* parent's; the node the traversal starts from has any rank
FindRanksOfTree(p) ==
    {r \in [FindTaxNodes -> Range(Ranks)] :
        \A n \in FindTaxNodes \ {1} : RankIndex(r[n]) > RankIndex(r[p[n]])}

\* the rows given: one row a sequence, <<seqname, tax_id>>; sequence names
\* are labels, so the tax_ids need not decrease along the names
SeqinfoRows ==
    {[k \in FindSequenceIds |-> <<k, t[k]>>] :
        t \in {u \in [FindSequenceIds -> FindTaxNodes] :
                  \A x, y \in FindSequenceIds : x <= y => u[x] <= u[y]}}

InitChoose ==
    /\ MergeIdle
    /\ parent \in FindParents
    /\ rank \in FindRanksOfTree(parent)
    /\ sequence_ids = [n \in FindTaxNodes |-> {}]
    /\ a = <<>>
    /\ pc = "idle"
    /\ node_i = 0
    /\ outcomes = <<>>
    /\ futs = {}
    /\ submitted = <<>>
    /\ complete = 0
    /\ error = <<"none", 0>>
    /\ kept_ids = {}
    /\ written = <<>>
    /\ fn = <<>>
    /\ status = <<>>
    /\ is_out = <<>>
    /\ work_queue = <<>>
    /\ shutdown = FALSE
    /\ wrote = <<>>
    /\ index_rank \in IndexRanks
    /\ per_taxon \in PerTaxonChoices
    /\ seqinfo_rows \in SeqinfoRows
    /\ nodes = <<>>
    /\ visited = {}
    /\ node_k = 0
    /\ yielded = <<>>
    /\ fpc = "start"

NextChoose ==
    \/ PopulateSequenceIds
    \/ FindNodesCall
    \/ FindNodesAssert
    \/ YieldNode
    \/ ChooseEnd

SpecChoose == InitChoose /\ [][NextChoose]_vars

(***************************************************************************)
(* Properties of the cluster merging                                       *)
(***************************************************************************)
\* the graph on the cluster ids of an input: two ids are joined when one
\* group holds both
Vertices(input) == UNION {input[k][2] : k \in DOMAIN input}

Joined(input, x, y) ==
    \E k \in DOMAIN input : x \in input[k][2] /\ y \in input[k][2]

RECURSIVE Reach(_, _)
Reach(input, S) ==
    LET T == S \cup {b \in Vertices(input) : \E x \in S : Joined(input, x, b)}
    IN IF T = S THEN S ELSE Reach(input, T)

ConnectedComponents(input) == {Reach(input, {v}) : v \in Vertices(input)}

Permuted(input, p) == [k \in DOMAIN input |-> input[p[k]]]

\* C1: what _merge_by_taxid returns is the set of connected components of the
\* graph of its input, whatever the order of the pairs: every permutation of
\* the input gives the same value, and {1,2}, {2,3} give {{1,2,3}}.
C1_MergeIsConnectedComponents ==
    mpc = "returned" =>
        /\ merged = ConnectedComponents(it0)
        /\ \A p \in Orders(DOMAIN it0) : MergeByTaxid(Permuted(it0, p)) = merged
        /\ (Len(it0) = 2 /\ it0[1][2] = {1, 2} /\ it0[2][2] = {2, 3})
              => merged = {{1, 2, 3}}

\* C1 witness: {2,3}, then {1,2} have been merged into one group
C1_Witness ==
    /\ mpc = "returned"
    /\ Len(it0) = 2 /\ it0[1][2] = {2, 3} /\ it0[2][2] = {1, 2}
    /\ merged = {{1, 2, 3}}

\* C2: after a run that committed, every row whose cluster was in a merge
\* group holds the least id of the group, and every other row is as it was.
C2_RowsRewrittenToMinimum ==
    mpc = "done" =>
        \A s \in SeqNames :
            /\ \A g \in merged : before[s] \in g => cluster_sequences[s] = Min(g)
            /\ before[s] \notin UNION merged => cluster_sequences[s] = before[s]

\* C2 witness: a committed run rewrote a row and left another row, whose
\* cluster is in no merge group, alone
C2_Witness ==
    /\ mpc = "done"
    /\ \E s \in SeqNames : cluster_sequences[s] # before[s]
    /\ \E s \in SeqNames : before[s] \notin UNION merged

\* C3: a run that follows a committed run finds no tax_id with more than one
\* cluster, executes no UPDATE and leaves the table as it found it.
C3_SecondRunWritesNothing ==
    runs >= 2 =>
        /\ it0 = <<>>
        /\ writes[runs] = 0
        /\ cluster_sequences = before

\* C3 witness: the second run has ended, after a first run that wrote
C3_Witness ==
    /\ runs = 2
    /\ mpc = "done"
    /\ writes[1] > 0

\* C4: a run that fails leaves the table, as seen and as committed, what it
\* was when the run began; nothing is committed while a run is under way; and
\* a commit comes only when every merge group has been rewritten.
C4_RunIsAtomic ==
    /\ mpc = "failed" => cluster_sequences = before /\ committed = before
    /\ mpc \in {"merge", "returned"} => committed = before
    /\ mpc = "done" => committed = cluster_sequences /\ taken = merged /\ rows = {}

\* C4 witness: the run failed when one merge group had been rewritten and
\* another had not been begun
C4_Witness ==
    /\ mpc = "failed"
    /\ writes[runs] > 0
    /\ taken # merged

(***************************************************************************)
(* Properties of the filtering scheduler                                   *)
(***************************************************************************)
Failed == {n \in DOMAIN status : status[n] = "failed"}

\* C5: once the failure of a job has been detected (shutdown(False) called
\* and the exception raised), no job that is still in the work queue is
\* started.
C5_NoJobStartedAfterFailure ==
    [][error[1] = "job" =>
          \A n \in DOMAIN status : status[n] = "queued" => status'[n] = "queued"]_vars

RECURSIVE Under(_, _)
Under(m, n) == m = n \/ (parent[m] # 0 /\ Under(parent[m], n))

\* the sequence ids attached to node n or below it
SeqsUnder(n) == UNION {sequence_ids[m] : m \in {x \in DOMAIN parent : Under(x, n)}}

\* the filter-rank nodes that hold sequences
NodesWithSequences ==
    {n \in DOMAIN rank : rank[n] = a.filter_rank /\ SeqsUnder(n) # {}}

KeptByNode ==
    UNION {sequence_ids[n] :
              n \in {m \in DOMAIN rank :
                        RankIndex(rank[m]) < RankIndex(a.filter_rank)}}
        \cup UNION {SeqsUnder(n) \ is_out[n] :
                       n \in {m \in DOMAIN status : status[m] = "ok"}}

\* C7: when no job fails, the kept ids are fixed by the taxonomy, the
\* arguments and what each node's job returned: they are the same in whatever
\* order the batches were appended, for every pool width.
C7_KeptIdsOrderIndependent ==
    pc = "done" =>
        /\ kept_ids = KeptByNode
        /\ \A p \in Orders(DOMAIN outcomes) :
               KeptIds(Permuted(outcomes, p)) = kept_ids

\* C7 witness: two jobs ran in a pool of two threads and their batches were
\* appended in the reverse of the dispatch order
C7_Witness ==
    /\ pc = "done"
    /\ a.threads = 2
    /\ Len(submitted) = 2
    /\ Len(outcomes) = 3
    /\ outcomes[2].tax_id = submitted[2]
    /\ outcomes[3].tax_id = submitted[1]
    /\ kept_ids # {}
    /\ kept_ids # AllSequenceIds

\* C8: when all jobs succeed the assert of line 373 holds and every sequence
\* id of the taxonomy has exactly one row in the concatenated outcomes.
C8_EverySequenceOnce ==
    /\ error[1] # "AssertionError"
    /\ pc \in {"concat", "done"} =>
           \A s \in AllSequenceIds : Cardinality(RowsOf(outcomes, s)) = 1

\* C9 as stated: the accumulator, the counter and the log sink are written
\* by the control thread only.
C9_OnlyControlWrites ==
    \A o \in DOMAIN wrote : wrote[o] \subseteq {"control"}

\* C9, amended: the accumulator and the counter are written by the control
\* thread only; the log sink, when there is one, is written by the control
\* thread and by the worker threads that ran filter_worker to its end.
C9_WorkersWriteOnlyTheLog ==
    /\ wrote["outcomes"] \subseteq {"control"}
    /\ wrote["complete"] \subseteq {"control"}
    /\ "worker" \in wrote["log"] =>
           /\ a.log
           /\ \E n \in DOMAIN fn : fn[n] = "filter_worker" /\ status[n] = "ok"
    /\ ~a.log => wrote["log"] = {}

\* C9 witness: a worker has written the log sink, and the control thread has
\* merged an outcome and counted it
C9_Witness ==
    /\ "worker" \in wrote["log"]
    /\ "control" \in wrote["log"]
    /\ "control" \in wrote["outcomes"]
    /\ complete > 0

\* the filter-rank nodes with at least one sequence and fewer than
\* min_seqs_for_filtering
RareNodes ==
    {n \in NodesWithSequences :
        Cardinality(SeqsUnder(n)) < a.min_seqs_for_filtering}

RareKeptOrDropped ==
    \A n \in RareNodes :
        /\ a.rare_taxon_action = KEEP => SeqsUnder(n) \subseteq kept_ids
        /\ a.rare_taxon_action = DROP => SeqsUnder(n) \cap kept_ids = {}

\* C10 as stated: no job is submitted for a rare node, and the final kept set
\* holds all of its sequences under KEEP and none under DROP.
C10_NoJobForRareNode ==
    /\ \A n \in RareNodes : status[n] = "none"
    /\ pc = "done" => RareKeptOrDropped

\* C10, amended: the job submitted for a rare node runs mock_filter, never
\* filter_worker, and it is submitted to the pool like any other; when action
\* ends without error the kept set holds all of the node's sequences under
\* KEEP and none under DROP.
C10_RareNodeRunsMockFilter ==
    /\ \A n \in DOMAIN fn :
        /\ fn[n] = "mock_filter" => n \in RareNodes
        /\ fn[n] = "filter_worker" => n \in NodesWithSequences \ RareNodes
    /\ pc = "done" =>
           /\ \A n \in RareNodes : fn[n] = "mock_filter" /\ n \in Range(submitted)
           /\ RareKeptOrDropped

\* C10 witness: action ended with a rare node dropped and another node's
\* sequences kept
C10_Witness ==
    /\ pc = "done"
    /\ a.rare_taxon_action = DROP
    /\ RareNodes # {}
    /\ kept_ids # {}

SeqsAboveFilterRank ==
    UNION {sequence_ids[n] :
              n \in {m \in DOMAIN rank :
                        RankIndex(rank[m]) < RankIndex(a.filter_rank)}}

\* the three parts of the kept set: above the filter rank, rare nodes under
\* KEEP, and what each filtering job did not flag
ExpectedKept ==
    SeqsAboveFilterRank
        \cup (IF a.rare_taxon_action = KEEP
                 THEN UNION {SeqsUnder(n) : n \in RareNodes} ELSE {})
        \cup UNION {SeqsUnder(n) \ is_out[n] :
                       n \in NodesWithSequences \ RareNodes}

\* two species of 6 sequences each, one outlier in each
TwoSpeciesOfSix ==
    <<WithTaxId(MockFilter({}, TRUE), 0),
      WithTaxId([seqname |-> 1..6, is_out |-> {3}], 2),
      WithTaxId([seqname |-> 7..12, is_out |-> {9}], 3)>>

\* C17: when action ends without error its kept ids are the ids attached
\* above the filter rank, the ids of the rare filter-rank nodes under KEEP
\* (none of them under DROP) and the ids that the job of every other
\* filter-rank node did not flag; a filter-rank node without sequences has no
\* job and adds nothing; two species of 6 with one outlier each keep 10.
C17_KeptIsUnionOfParts ==
    /\ pc \in {"done", "written"} =>
           /\ kept_ids = ExpectedKept
           /\ Cardinality(KeptIds(TwoSpeciesOfSix)) = 10
    /\ \A n \in DOMAIN fn :
           (fn[n] # "none" \/ status[n] # "none" \/ is_out[n] # {}) =>
               rank[n] = a.filter_rank /\ SeqsUnder(n) # {}

\* C17 witness: action ended having kept a sequence attached above the
\* filter rank, with a job that flagged some of its node's sequences and not
\* others, and a filter-rank node without sequences
C17_Witness ==
    /\ pc = "done"
    /\ SeqsAboveFilterRank # {}
    /\ \E n \in NodesWithSequences \ RareNodes :
           is_out[n] # {} /\ is_out[n] # SeqsUnder(n)
    /\ \E n \in DOMAIN rank : rank[n] = a.filter_rank /\ SeqsUnder(n) = {}

\* C18: when a job has failed action does not reach the aggregation: no
\* kept set is computed and no output file is written, whatever was merged
\* before; and an action that raised has written nothing.
C18_FailureLeavesNoOutput ==
    /\ Failed # {} =>
           /\ pc \notin {"concat", "done", "written"}
           /\ kept_ids = {}
           /\ written = <<>>
    /\ pc = "raised" => kept_ids = {} /\ written = <<>>

\* C18 witness: action raised the error of a failed job after the batch of
\* another job had been merged
C18_Witness ==
    /\ pc = "raised"
    /\ error[1] = "job"
    /\ \E k \in DOMAIN outcomes : outcomes[k].tax_id # 0
    /\ written = <<>>

\* the batches merged for node n
BatchesOf(n) == {k \in DOMAIN outcomes : outcomes[k].tax_id = n}

\* the polling loop has ended and no job failed
PolledAll == pc \in {"wait", "concat", "done", "written"} /\ futs = {}

\* C19: while no job has failed the polling loop ends, with futs empty; then
\* every submitted job has been counted once and merged once; and at every
\* poll the completed count plus the pending count is the number of jobs
\* submitted.
C19_PollingTerminatesAndCountsOnce ==
    /\ [](pc = "wait" => complete + Cardinality(futs) = Len(submitted))
    /\ [](PolledAll =>
             /\ complete = Len(submitted)
             /\ Len(outcomes) = 1 + Len(submitted)
             /\ \A k \in DOMAIN submitted :
                    /\ Cardinality(BatchesOf(submitted[k])) = 1
                    /\ status[submitted[k]] = "ok")
    /\ [][(pc = "wait" /\ futs # {} /\ <<complete, futs, pc>>' # <<complete, futs, pc>>)
             => complete' + Cardinality(futs \ DoneFutures) = Len(submitted)]_vars
    /\ (pc = "wait") ~> (PolledAll \/ Failed # {})

\* C19 witness: the loop ended after two polls that each merged one job
C19_Witness ==
    /\ pc = "wait"
    /\ futs = {}
    /\ complete = 2
    /\ Len(submitted) = 2
    /\ Len(outcomes) = 3

(***************************************************************************)
(* Properties of find_nodes and choose_sequence_ids                        *)
(***************************************************************************)
\* find_nodes has returned its nodes
Found == fpc \in {"iterate", "done"}

\* the nodes without children
Leaves == {n \in DOMAIN parent : \A c \in DOMAIN parent : parent[c] # n}

EveryLeafHasSequences == \A n \in Leaves : sequence_ids[n] # {}

\* the sequence ids attached anywhere in the traversed tree
AllTreeSequenceIds == UNION {sequence_ids[n] : n \in DOMAIN sequence_ids}

\* the sequence ids in the subtrees of the nodes returned
CoveredSequenceIds == UNION {SeqsUnder(nodes[k]) : k \in DOMAIN nodes}

\* the sequence ids attached to a node of the target rank or below one
SeqsUnderTargetRank ==
    UNION {SeqsUnder(n) : n \in {m \in DOMAIN rank : rank[m] = DEFAULT_RANK}}

\* C12 as stated: when every leaf has a sequence, the subtrees of the nodes
\* returned hold every sequence id of the tree.
C12_CoversAllSequences ==
    (Found /\ EveryLeafHasSequences) => CoveredSequenceIds = AllTreeSequenceIds

\* C12, amended: when every leaf has a sequence, the subtrees of the nodes
\* returned hold every sequence id attached at or below a node of the target
\* rank, and nothing that is not in the tree; they hold every sequence id of
\* the tree when all of them are attached at or below the target rank.
C12_CoversSequencesUnderTargetRank ==
    (Found /\ EveryLeafHasSequences) =>
        /\ SeqsUnderTargetRank \subseteq CoveredSequenceIds
        /\ CoveredSequenceIds \subseteq AllTreeSequenceIds
        /\ SeqsUnderTargetRank = AllTreeSequenceIds
               => CoveredSequenceIds = AllTreeSequenceIds

\* C12 witness: two nodes were returned, one of them for sequences attached
\* below it only, and they cover every sequence of the tree
C12_Witness ==
    /\ fpc = "done"
    /\ EveryLeafHasSequences
    /\ Len(nodes) = 2
    /\ \E k \in DOMAIN nodes :
           sequence_ids[nodes[k]] = {} /\ rank[nodes[k]] = DEFAULT_RANK
    /\ SeqsUnderTargetRank = AllTreeSequenceIds
    /\ CoveredSequenceIds = AllTreeSequenceIds

\* C13: no node returned is an ancestor or a descendant of another, none is
\* returned twice, and no sequence id is in the subtrees of two of them.
C13_ReturnedNodesDisjoint ==
    Found =>
        \A j, k \in DOMAIN nodes :
            j # k =>
                /\ nodes[j] # nodes[k]
                /\ ~Under(nodes[j], nodes[k])
                /\ SeqsUnder(nodes[j]) \cap SeqsUnder(nodes[k]) = {}

\* C13 witness: a node of the target rank and a node above the target rank
\* were both returned
C13_Witness ==
    /\ fpc = "done"
    /\ Len(nodes) >= 2
    /\ \E j, k \in DOMAIN nodes :
           rank[nodes[j]] = DEFAULT_RANK /\ rank[nodes[k]] = "genus"

\* the nodes returned that are in the set S, in the order of their return
ReturnedIn(S) == LET InS(n) == n \in S IN SelectSeq(nodes, InS)

Subtree(n) == {m \in DOMAIN parent : Under(m, n)}

RECURSIVE ReturnedInChildren(_)
ReturnedInChildren(children) ==
    IF children = <<>> THEN <<>>
    ELSE ReturnedIn(Subtree(Head(children)))
             \o ReturnedInChildren(Tail(children))

\* the node is returned by the rule of the target rank
ByTargetRank(n) == rank[n] = DEFAULT_RANK /\ SeqsUnder(n) # {}

\* C14: a node that inner is called on and that the rule of the target rank
\* does not return is returned if and only if nothing is returned from below
\* it, its subtree holds a sequence, its rank is not a 'below' rank and its
\* rank is strictly deeper than index_rank; when something is returned from
\* below it, what is returned from its subtree is what is returned from its
\* children's subtrees, in the order of the children, without the node; and
\* no node without sequences is returned.
C14_FallbackRule ==
    Found =>
        /\ \A n \in visited :
               ~ByTargetRank(n) =>
                   LET below == ReturnedIn(Subtree(n) \ {n})
                   IN /\ n \in Range(nodes) <=>
                             /\ below = <<>>
                             /\ SeqsUnder(n) # {}
                             /\ rank[n] # "below_species"
                             /\ RankIndex(index_rank) < RankIndex(rank[n])
                      /\ below # <<>> =>
                             ReturnedIn(Subtree(n)) =
                                 ReturnedInChildren(SortedSeq(Children(n)))
        /\ \A k \in DOMAIN nodes : SeqsUnder(nodes[k]) # {}

\* C14 witness: a genus that holds sequences, with a species below it that
\* holds none, was returned, and after it a species, both through the node
\* above them
C14_Witness ==
    /\ fpc = "done"
    /\ Len(nodes) = 2
    /\ rank[nodes[1]] = "genus"
    /\ \E c \in DOMAIN parent :
           parent[c] = nodes[1] /\ rank[c] = DEFAULT_RANK /\ SeqsUnder(c) = {}
    /\ rank[nodes[2]] = DEFAULT_RANK

\* C15: every node inner is called on that is of the target rank and holds a
\* sequence in its subtree is returned, and inner is not called on any node
\* below it, nor is any returned.
C15_TargetRankSelectedNotDescended ==
    Found =>
        \A n \in visited :
            ByTargetRank(n) =>
                /\ n \in Range(nodes)
                /\ \A m \in Subtree(n) \ {n} :
                       m \notin visited /\ m \notin Range(nodes)

\* C15 witness: a node of the target rank was returned for the sequences
\* of a node below it
C15_Witness ==
    /\ fpc = "done"
    /\ \E k \in DOMAIN nodes :
           /\ rank[nodes[k]] = DEFAULT_RANK
           /\ sequence_ids[nodes[k]] = {}
           /\ \E m \in Subtree(nodes[k]) \ {nodes[k]} : sequence_ids[m] # {}

\* C16: for the node at each position, all the ids of its subtree are
\* yielded, each once, when they are per_taxon or fewer, and otherwise
\* per_taxon ids of its subtree, no two the same.
C16_AllOrSampleWithoutReplacement ==
    \A k \in DOMAIN yielded :
        LET ids == SeqsUnder(nodes[k])
            n == Cardinality(ids)
        IN IF n <= per_taxon
              THEN Range(yielded[k]) = ids /\ Len(yielded[k]) = n
              ELSE /\ Len(yielded[k]) = per_taxon
                   /\ Range(yielded[k]) \subseteq ids
                   /\ Cardinality(Range(yielded[k])) = per_taxon

\* C16 witness: two of the three ids of a node were drawn, and all the ids
\* of another node were yielded
C16_Witness ==
    /\ fpc = "done"
    /\ per_taxon = 2
    /\ \E k \in DOMAIN yielded :
           Len(yielded[k]) = 2 /\ Cardinality(SeqsUnder(nodes[k])) = 3

====
